---- MODULE Spec2Model ----
(***************************************************************************)
(* Model of the organization collector (urban_data_parser.py and its       *)
(* earlier revision gf.py): city resolution, the Overpass request and its  *)
(* normalizer, the retry/failover loop, the SQLite store and main.         *)
(*                                                                         *)
(* Text is a sequence of one-character strings so that strip() and         *)
(* capitalize() are computed.  The Cyrillic literals of the source are     *)
(* written in Latin transliteration: "Yaroslavl" stands for               *)
(* the default city, "kafe", "magazin", "muzej", "shkola", "apteka" for    *)
(* the five category labels.  A category label is never edited by the      *)
(* program, so it is carried as a one-token text.                          *)
(***************************************************************************)
EXTENDS Integers, Sequences, FiniteSets, TLC

VARIABLES
    pc,                 \* position of the running program
    revision,           \* "urban" (urban_data_parser.py) or "gf" (gf.py)
    argv_city,          \* value of --city (args.city), or its absence
    typed,              \* the line input() would return
    CITY,               \* the resolved city
    response,           \* outcome of the last requests.post
    request_result,     \* what make_overpass_request returned for it
    retry_count,        \* parameter of search_organizations_overpass
    attempt,            \* loop variable of the attempt loop (0-based)
    server,             \* 1-based index into servers
    calls,              \* endpoint calls of the current search, in order
    sleeps,             \* backoff sleeps of the current search, in order
    successAt,          \* index of the call that succeeded, 0 when none
    organizations,      \* value returned by the current search
    cat,                \* 1-based index into categories
    queried,            \* categories queried so far, in order
    returned,           \* per-category results and their success, in order
    all_organizations,  \* main's accumulator
    pauses,             \* inter-category sleeps of main
    table_exists,       \* the organizations table has been created
    table,              \* its rows, in insertion order
    sqlite_sequence,    \* AUTOINCREMENT counter of the table
    saved_count,        \* local counter of the last save_to_database
    raised,             \* the last save_to_database let an exception out
    saved,              \* argument of the last save_to_database call
    n_saves,            \* number of save_to_database calls so far
    before              \* rows of the table when the last call started

cityVars  == <<argv_city, typed, CITY>>
reqVars   == <<response, request_result>>
ctlVars   == <<retry_count, attempt, server, calls, sleeps, successAt, organizations>>
mainVars  == <<cat, queried, returned, all_organizations, pauses>>
storeVars == <<table_exists, table, sqlite_sequence, saved_count, raised, saved,
               n_saves, before>>
vars      == <<pc, revision, cityVars, reqVars, ctlVars, mainVars, storeVars>>

---------------------------------------------------------------------------
(* Bounds *)
MaxTextLen    == 3   \* longest text typed or given as --city
MaxElements   == 2   \* longest 'elements' array of a response
MaxRetryCount == 5   \* largest retry_count tried
MaxBatch      == 2   \* longest record list handed to save_to_database
MaxSaveCalls  == 2   \* save_to_database calls on one database file

---------------------------------------------------------------------------
(* Text *)
Chars == {" ", "a", "A"}

Upper(c) == IF c = "a" THEN "A" ELSE c
Lower(c) == IF c = "A" THEN "a" ELSE c

RECURSIVE LStrip(_)
LStrip(s) == IF s # <<>> /\ Head(s) = " " THEN LStrip(Tail(s)) ELSE s

RECURSIVE RStrip(_)
RStrip(s) ==
    IF s # <<>> /\ s[Len(s)] = " " THEN RStrip(SubSeq(s, 1, Len(s) - 1)) ELSE s

\* str.strip()
Strip(s) == RStrip(LStrip(s))

\* str.capitalize(): first character upper-cased, the rest lower-cased
Capitalize(s) ==
    [i \in 1..Len(s) |-> IF i = 1 THEN Upper(s[i]) ELSE Lower(s[i])]

RECURSIVE TextsOfLen(_)
TextsOfLen(n) ==
    IF n = 0 THEN {<<>>}
    ELSE {Append(s, c) : s \in TextsOfLen(n - 1), c \in Chars}

Texts == UNION {TextsOfLen(n) : n \in 0..MaxTextLen}

---------------------------------------------------------------------------
(* setup_city *)
DefaultCity == <<"Y", "a", "r", "o", "s", "l", "a", "v", "l">>

\* args.city: None when the flag is absent, else its text
NoFlag     == [given |-> FALSE, text |-> <<>>]
Flag(s)    == [given |-> TRUE, text |-> s]
FlagValues == {NoFlag} \cup {Flag(s) : s \in Texts}

\* `if args.city:` is true for a given, non-empty text
Truthy(flag) == flag.given /\ flag.text # <<>>

setup_city(flag, line) ==
    IF Truthy(flag)
    THEN Capitalize(Strip(flag.text))
    ELSE LET city == Capitalize(Strip(line))
         IN  IF city # <<>> THEN city ELSE DefaultCity

---------------------------------------------------------------------------
(* Values of a decoded JSON payload and of a record's fields.  A value is  *)
(* a tagged record with one text slot and one number slot, so that any two *)
(* values can be compared.                                                 *)
Absent    == [t |-> "absent", s |-> <<>>, n |-> 0]   \* the key is not there
Null      == [t |-> "null", s |-> <<>>, n |-> 0]     \* JSON null, Python None
ListValue == [t |-> "list", s |-> <<>>, n |-> 0]     \* a JSON array
Str(s)    == [t |-> "str", s |-> s, n |-> 0]
IntV(n)   == [t |-> "int", s |-> <<>>, n |-> n]      \* JSON 57
RealV(n)  == [t |-> "real", s |-> <<>>, n |-> n]     \* JSON 57.0

\* 'center' of an element: absent, or an object with its own lat and lon
NoCenter       == [has |-> FALSE, lat |-> Absent, lon |-> Absent]
Center(la, lo) == [has |-> TRUE, lat |-> la, lon |-> lo]

---------------------------------------------------------------------------
(* parse_organization_element *)

\* The outcome of a call: a value, nothing (None), or an exception
NoOrg == [name |-> Absent, address |-> Absent, lat |-> Absent, lon |-> Absent,
          type |-> Absent]
Org(name, address, lat, lon, type) ==
    [name |-> name, address |-> address, lat |-> lat, lon |-> lon, type |-> type]
Some(org)  == [kind |-> "org", org |-> org]
ReturnNone == [kind |-> "none", org |-> NoOrg]
Raises     == [kind |-> "raise", org |-> NoOrg]

\* element_tags.get('addr:street') is true for a non-empty text
TagTruthy(v) == v.t = "str" /\ v.s # <<>>

\* element_tags.get(key, ''): the text of a tag, '' when the key is absent
TagText(v) == IF v.t = "absent" THEN <<>> ELSE v.s

\* f"{street} {housenumber}".strip(), the only member of address_parts,
\* else the city
AddressOf(element, city) ==
    IF TagTruthy(element.street)
    THEN Strip(TagText(element.street) \o <<" ">> \o TagText(element.house))
    ELSE city

parse_organization_element(element, category, city) ==
    IF element.name.t \notin {"absent", "str"}
    THEN Raises                       \* .strip() of a value that is no text
    ELSE LET name == Strip(TagText(element.name))
         IN  IF name = <<>> THEN ReturnNone
             ELSE IF element.lat.t # "absent" /\ element.lon.t # "absent"
             THEN Some(Org(Str(name), Str(AddressOf(element, city)),
                           element.lat, element.lon, Str(<<category>>)))
             ELSE IF element.center.has
             THEN IF element.center.lat.t = "absent" \/ element.center.lon.t = "absent"
                  THEN Raises         \* KeyError of element['center'][...]
                  ELSE Some(Org(Str(name), Str(AddressOf(element, city)),
                                element.center.lat, element.center.lon,
                                Str(<<category>>)))
             ELSE ReturnNone

---------------------------------------------------------------------------
(* make_overpass_request *)

\* What requests.post and response.json() can do
FailureKinds ==
    {"HTTPError504", "HTTPError", "ConnectionError", "Timeout",
     "JSONDecodeError", "Exception"}
Failure(kind) == [status |-> kind, elements |-> <<>>]
Decoded(elements) == [status |-> "ok", elements |-> elements]

\* The value returned: a record list, or None; Escapes is an exception
\* that no except clause of the function catches
NoneResult == [isNone |-> TRUE, orgs |-> <<>>, raised |-> FALSE]
ListResult(orgs) == [isNone |-> FALSE, orgs |-> orgs, raised |-> FALSE]
Escapes == [isNone |-> TRUE, orgs |-> <<>>, raised |-> TRUE]

\* the loop of lines 96-99 over data.get('elements', [])
RECURSIVE CollectOrganizations(_, _, _)
CollectOrganizations(elements, category, city) ==
    IF elements = <<>> THEN ListResult(<<>>)
    ELSE LET org  == parse_organization_element(Head(elements), category, city)
             rest == CollectOrganizations(Tail(elements), category, city)
         IN  IF org.kind = "raise" \/ rest.isNone THEN NoneResult
             ELSE IF org.kind = "org"
             THEN ListResult(<<org.org>> \o rest.orgs)
             ELSE rest

\* the function without its last clause, `except Exception`
make_overpass_request_narrow(resp, category, city) ==
    IF resp.status \in {"HTTPError504", "HTTPError", "ConnectionError", "Timeout"}
    THEN NoneResult
    ELSE IF resp.status # "ok" THEN Escapes
    ELSE LET r == CollectOrganizations(resp.elements, category, city)
         IN  IF r.isNone THEN Escapes ELSE r

make_overpass_request(resp, category, city) ==
    IF resp.status # "ok"
    THEN NoneResult                   \* every except clause falls to line 113
    ELSE CollectOrganizations(resp.elements, category, city)

---------------------------------------------------------------------------
(* search_organizations_overpass (urban_data_parser.py) *)

\* primary, first mirror, second mirror
servers == <<"overpass-api.de", "overpass.kumi.systems", "overpass.openstreetmap.ru">>

DefaultRetryCount == 5

\* `if organizations:` in place of the None test
SucceededNonEmpty(r) == ~r.isNone /\ r.orgs # <<>>

\* `if organizations is not None`
Succeeded(r) == ~r.isNone

\* `if attempt < retry_count - 1`
SleepsAfter(a, n) == a < n - 1

\* a constant wait in place of the linear one
WaitTimeFixed(a) == 30

\* wait_time
WaitTime(a) == 30 * (a + 1)

categories == <<"kafe", "magazin", "muzej", "shkola", "apteka">>

\* Elements a server may send
GoodNode ==
    [name |-> Str(<<" ", "A">>), street |-> Absent, house |-> Absent,
     lat |-> RealV(57), lon |-> RealV(39), center |-> NoCenter]
GoodWay ==
    [name |-> Str(<<"a">>), street |-> Str(<<"a">>), house |-> Str(<<"A">>),
     lat |-> Absent, lon |-> Absent, center |-> Center(RealV(58), RealV(40))]
Nameless ==
    [name |-> Absent, street |-> Absent, house |-> Absent,
     lat |-> RealV(57), lon |-> RealV(39), center |-> NoCenter]
BrokenCenter ==
    [name |-> Str(<<"a">>), street |-> Absent, house |-> Absent,
     lat |-> Absent, lon |-> Absent, center |-> Center(Absent, RealV(40))]

\* What an endpoint call of the retry loop can meet
EndpointOutcomes ==
    {Failure(k) : k \in FailureKinds}
    \cup {Decoded(<<>>), Decoded(<<GoodNode>>), Decoded(<<Nameless, GoodWay>>),
          Decoded(<<GoodNode, BrokenCenter>>)}

\* for-loop entry, line 123
SearchStart ==
    /\ pc = "search"
    /\ revision = "urban"
    /\ queried' = Append(queried, categories[cat])
    /\ attempt' = 0
    /\ server' = 1
    /\ calls' = <<>>
    /\ sleeps' = <<>>
    /\ successAt' = 0
    /\ organizations' = <<>>
    /\ pc' = IF retry_count > 0 THEN "request" ELSE "returned"
    /\ UNCHANGED <<revision, cityVars, reqVars, retry_count, cat, returned,
                   all_organizations, pauses, storeVars>>

\* one pass of the inner loop body, lines 125-131 without the sleep itself
Request ==
    /\ pc = "request"
    /\ \E resp \in EndpointOutcomes :
         LET r == make_overpass_request(resp, categories[cat], CITY)
             lastServer  == server = Len(servers)
             lastAttempt == attempt + 1 >= retry_count
         IN  /\ response' = resp
             /\ request_result' = r
             /\ calls' = Append(calls, server)
             /\ IF r.raised
                THEN /\ pc' = "crashed"
                     /\ UNCHANGED <<attempt, server, successAt, organizations>>
                ELSE IF Succeeded(r)
                THEN /\ pc' = "returned"
                     /\ organizations' = r.orgs
                     /\ successAt' = Len(calls) + 1
                     /\ UNCHANGED <<attempt, server>>
                ELSE IF ~lastServer
                THEN /\ server' = server + 1
                     /\ UNCHANGED <<pc, attempt, successAt, organizations>>
                ELSE IF SleepsAfter(attempt, retry_count)
                THEN /\ pc' = "backoff"
                     /\ UNCHANGED <<attempt, server, successAt, organizations>>
                ELSE /\ pc' = IF lastAttempt THEN "returned" ELSE "request"
                     /\ attempt' = attempt + 1
                     /\ server' = 1
                     /\ organizations' = <<>>
                     /\ UNCHANGED successAt
    /\ UNCHANGED <<revision, cityVars, retry_count, sleeps, mainVars, storeVars>>

\* time.sleep(wait_time), then the next attempt
Backoff ==
    /\ pc = "backoff"
    /\ sleeps' = Append(sleeps, WaitTime(attempt))
    /\ attempt' = attempt + 1
    /\ server' = 1
    /\ pc' = IF attempt + 1 < retry_count THEN "request" ELSE "returned"
    /\ UNCHANGED <<revision, cityVars, reqVars, retry_count, calls, successAt,
                   organizations, mainVars, storeVars>>

---------------------------------------------------------------------------
(* The organizations table: create_database and save_to_database *)

\* Column affinity: an integer bound to a REAL column is stored as a real
RealAffinity(v) == IF v.t = "int" THEN RealV(v.n) ELSE v

\* the row INSERT builds from the five bound values
Row(id, org) ==
    [id |-> id, name |-> org.name, address |-> org.address,
     lat |-> RealAffinity(org.lat), lon |-> RealAffinity(org.lon),
     type |-> org.type]

\* UNIQUE(name, address, lat, lon, type): two rows collide when the five
\* values are equal and none of them is NULL (NULLs are distinct in UNIQUE)
Collides(a, b) ==
    /\ a.name = b.name /\ a.address = b.address /\ a.lat = b.lat
    /\ a.lon = b.lon /\ a.type = b.type
    /\ "null" \notin {a.name.t, a.address.t, a.lat.t, a.lon.t, a.type.t}

FieldsOf(org) == {org.name, org.address, org.lat, org.lon, org.type}

\* building the parameter tuple (KeyError of org[...]) or binding it (a
\* value of a type sqlite3 does not support) raises inside the try block
InsertRaises(org) ==
    \E v \in FieldsOf(org) : v.t \in {"absent", "list"}

\* the except handler formats org['name']
HandlerRaises(org) == org.name.t = "absent"

\* INSERT OR REPLACE: the colliding rows are deleted and the new one stored
InsertOrReplace(db, org) ==
    LET row  == Row(db.seq + 1, org)
        kept == SelectSeq(db.table, LAMBDA r : ~Collides(r, row))
    IN  [table |-> Append(kept, row), seq |-> db.seq + 1]

\* INSERT OR IGNORE: the statement takes the next AUTOINCREMENT value
\* whether or not the row is kept
InsertOrIgnore(db, org) ==
    LET row == Row(db.seq + 1, org)
    IN  IF \E i \in 1..Len(db.table) : Collides(db.table[i], row)
        THEN [table |-> db.table, seq |-> db.seq + 1]
        ELSE [table |-> Append(db.table, row), seq |-> db.seq + 1]

\* the loop of save_to_database over its argument, inside one transaction
RECURSIVE SaveLoop(_, _, _)
SaveLoop(db, count, orgs) ==
    IF orgs = <<>>
    THEN [table |-> db.table, seq |-> db.seq, saved_count |-> count,
          raised |-> FALSE]
    ELSE LET org == Head(orgs)
         IN  IF ~InsertRaises(org)
             THEN SaveLoop(InsertOrIgnore(db, org), count + 1, Tail(orgs))
             ELSE IF HandlerRaises(org)
             THEN [table |-> db.table, seq |-> db.seq, saved_count |-> count,
                   raised |-> TRUE]
             ELSE SaveLoop(db, count, Tail(orgs))

\* save_to_database: commit when the loop ends, roll back (urban: the
\* connection's context manager; gf: close without commit) when an
\* exception leaves it
save_to_database(db, orgs) ==
    IF orgs = <<>>
    THEN [table |-> db.table, seq |-> db.seq, saved_count |-> 0, raised |-> FALSE]
    ELSE LET end == SaveLoop(db, 0, orgs)
         IN  IF end.raised
             THEN [table |-> db.table, seq |-> db.seq,
                   saved_count |-> end.saved_count, raised |-> TRUE]
             ELSE end

\* CREATE TABLE IF NOT EXISTS
create_database ==
    /\ table_exists' = TRUE
    /\ UNCHANGED <<table, sqlite_sequence>>

\* the effect of one save_to_database call on the store variables
Saving(orgs) ==
    LET end == save_to_database([table |-> table, seq |-> sqlite_sequence], orgs)
    IN  /\ table' = end.table
        /\ sqlite_sequence' = end.seq
        /\ saved_count' = end.saved_count
        /\ raised' = end.raised
        /\ saved' = orgs
        /\ n_saves' = n_saves + 1
        /\ before' = table
        /\ UNCHANGED table_exists

---------------------------------------------------------------------------
(* search_organizations_overpass (gf.py): one call, no retry *)

\* the try block raises: the post, the status, the decoding or an element
GfFails(resp, category, city) ==
    resp.status # "ok" \/ CollectOrganizations(resp.elements, category, city).isNone

\* any exception of the try block returns [], else the records
gf_search(resp, category, city) ==
    IF GfFails(resp, category, city) THEN <<>>
    ELSE CollectOrganizations(resp.elements, category, city).orgs

GfSearch ==
    /\ pc = "search"
    /\ revision = "gf"
    /\ \E resp \in EndpointOutcomes :
         /\ response' = resp
         /\ organizations' = gf_search(resp, categories[cat], CITY)
         /\ successAt' = IF GfFails(resp, categories[cat], CITY) THEN 0 ELSE 1
    /\ queried' = Append(queried, categories[cat])
    /\ calls' = <<1>>
    /\ sleeps' = <<>>
    /\ pc' = "returned"
    /\ UNCHANGED <<revision, cityVars, request_result, retry_count, attempt,
                   server, cat, returned, all_organizations, pauses, storeVars>>

---------------------------------------------------------------------------
(* main *)

\* time.sleep between categories: 10 s in urban_data_parser.py, 3 s in gf.py
PauseSeconds == IF revision = "urban" THEN 10 ELSE 3

SetupCity ==
    /\ pc = "setup_city"
    /\ CITY' = setup_city(argv_city, typed)
    /\ pc' = "create_database"
    /\ UNCHANGED <<revision, argv_city, typed, reqVars, ctlVars, mainVars, storeVars>>

CreateDatabase ==
    /\ pc = "create_database"
    /\ create_database
    /\ before' = table
    /\ pc' = "search"
    /\ UNCHANGED <<revision, cityVars, reqVars, ctlVars, mainVars, saved_count,
                   raised, saved, n_saves>>

\* main saving each category's records as soon as they arrive
MainCollectSaving ==
    /\ pc = "returned"
    /\ all_organizations' = all_organizations \o organizations
    /\ returned' = Append(returned, [orgs |-> organizations, ok |-> successAt # 0])
    /\ pauses' = Append(pauses, PauseSeconds)
    /\ Saving(organizations)
    /\ IF cat < Len(categories)
       THEN /\ cat' = cat + 1
            /\ pc' = "search"
       ELSE /\ pc' = "save"
            /\ UNCHANGED cat
    /\ UNCHANGED <<revision, cityVars, reqVars, ctlVars, queried>>

\* all_organizations.extend(orgs); time.sleep; next category or the save
MainCollect ==
    /\ pc = "returned"
    /\ all_organizations' = all_organizations \o organizations
    /\ returned' = Append(returned, [orgs |-> organizations, ok |-> successAt # 0])
    /\ pauses' = Append(pauses, PauseSeconds)
    /\ IF cat < Len(categories)
       THEN /\ cat' = cat + 1
            /\ pc' = "search"
       ELSE /\ pc' = "save"
            /\ UNCHANGED cat
    /\ UNCHANGED <<revision, cityVars, reqVars, ctlVars, queried, storeVars>>

MainSave ==
    /\ pc = "save"
    /\ Saving(all_organizations)
    /\ pc' = IF raised' THEN "crashed" ELSE "done"
    /\ UNCHANGED <<revision, cityVars, reqVars, ctlVars, mainVars>>

---------------------------------------------------------------------------
(* Starting values *)
NoResponse == [status |-> "none", elements |-> <<>>]

IdleCity == argv_city = NoFlag /\ typed = <<>> /\ CITY = DefaultCity
IdleReq  == response = NoResponse /\ request_result = NoneResult
IdleCtl ==
    /\ attempt = 0 /\ server = 1 /\ calls = <<>> /\ sleeps = <<>>
    /\ successAt = 0 /\ organizations = <<>>
IdleMain ==
    /\ cat = 1 /\ queried = <<>> /\ returned = <<>>
    /\ all_organizations = <<>> /\ pauses = <<>>
IdleLog ==
    /\ saved_count = 0 /\ raised = FALSE /\ saved = <<>> /\ n_saves = 0
    /\ before = <<>>
NoDatabase == table_exists = FALSE /\ table = <<>> /\ sqlite_sequence = 0

---------------------------------------------------------------------------
(* setup_city alone, over every flag and every typed line *)
InitCity ==
    /\ pc = "setup_city"
    /\ revision = "urban"
    /\ argv_city \in FlagValues
    /\ typed \in Texts
    /\ CITY = <<>>
    /\ retry_count = DefaultRetryCount
    /\ IdleReq /\ IdleCtl /\ IdleMain /\ IdleLog /\ NoDatabase

NextCity == SetupCity
SpecCity == InitCity /\ [][NextCity]_vars

---------------------------------------------------------------------------
(* make_overpass_request alone, over every response *)
NameValues   == {Absent, Null, Str(<<" ">>), Str(<<" ", "A">>)}
CenterValues == {NoCenter, Center(RealV(58), RealV(40)), Center(Absent, RealV(40))}

Elements ==
    {[name |-> nm, street |-> st, house |-> Absent, lat |-> la, lon |-> lo,
      center |-> ce] :
        nm \in NameValues, st \in {Absent, Str(<<"a">>)},
        la \in {Absent, RealV(57)}, lo \in {Absent, RealV(39)},
        ce \in CenterValues}

RECURSIVE ElementLists(_)
ElementLists(n) ==
    IF n = 0 THEN {<<>>}
    ELSE ElementLists(n - 1)
         \cup {Append(es, e) : es \in ElementLists(n - 1), e \in Elements}

Responses(n) ==
    {Failure(k) : k \in FailureKinds}
    \cup {Decoded(es) : es \in ElementLists(n)}

MakeRequest ==
    /\ pc = "post"
    /\ request_result' = make_overpass_request(response, categories[cat], CITY)
    /\ pc' = "posted"
    /\ UNCHANGED <<revision, cityVars, response, ctlVars, mainVars, storeVars>>

InitReq ==
    /\ pc = "post"
    /\ revision = "urban"
    /\ IdleCity
    /\ response \in Responses(MaxElements)
    /\ request_result = NoneResult
    /\ retry_count = DefaultRetryCount
    /\ IdleCtl /\ IdleMain /\ IdleLog /\ NoDatabase

NextReq == MakeRequest
SpecReq == InitReq /\ [][NextReq]_vars

---------------------------------------------------------------------------
(* search_organizations_overpass alone, for every retry_count *)
InitSearch ==
    /\ pc = "search"
    /\ revision = "urban"
    /\ IdleCity
    /\ retry_count \in 0..MaxRetryCount
    /\ IdleReq /\ IdleCtl /\ IdleMain /\ IdleLog /\ NoDatabase

NextSearch == SearchStart \/ Request \/ Backoff
SpecSearch == InitSearch /\ [][NextSearch]_vars

---------------------------------------------------------------------------
(* The store alone: create_database and save_to_database called in any     *)
(* order main allows (create first), with any record lists                  *)
StoreRecord(nm, la) ==
    Org(nm, Str(DefaultCity), la, RealV(39), Str(<<categories[1]>>))

\* a well-formed record, the same with an integer latitude, one with a
\* None latitude, one with an unbindable latitude, one without 'name'
StoreRecords ==
    {StoreRecord(Str(<<"A">>), RealV(57)), StoreRecord(Str(<<"A">>), IntV(57)),
     StoreRecord(Str(<<"A">>), Null), StoreRecord(Str(<<"A">>), ListValue),
     StoreRecord(Absent, RealV(57))}

RECURSIVE Batches(_)
Batches(n) ==
    IF n = 0 THEN {<<>>}
    ELSE Batches(n - 1)
         \cup {Append(b, org) : b \in Batches(n - 1), org \in StoreRecords}

StoreCreate ==
    /\ pc \in {"store", "store_created", "store_saved"}
    /\ create_database
    /\ before' = table
    /\ pc' = "store_created"
    /\ UNCHANGED <<revision, cityVars, reqVars, ctlVars, mainVars, saved_count,
                   raised, saved, n_saves>>

StoreSave ==
    /\ pc \in {"store_created", "store_saved"}
    /\ table_exists
    /\ n_saves < MaxSaveCalls
    /\ \E orgs \in Batches(MaxBatch) : Saving(orgs)
    /\ pc' = "store_saved"
    /\ UNCHANGED <<revision, cityVars, reqVars, ctlVars, mainVars>>

InitStore ==
    /\ pc = "store"
    /\ revision \in {"urban", "gf"}
    /\ IdleCity
    /\ retry_count = DefaultRetryCount
    /\ IdleReq /\ IdleCtl /\ IdleMain /\ IdleLog /\ NoDatabase

NextStore == StoreCreate \/ StoreSave
SpecStore == InitStore /\ [][NextStore]_vars

---------------------------------------------------------------------------
(* A whole run of main, of either revision, on a fresh database file or on *)
(* the file an earlier run left                                            *)
EarlierRow == Row(1, Org(Str(<<"A">>), Str(DefaultCity), RealV(57), RealV(39),
                         Str(<<categories[1]>>)))

Init ==
    /\ revision \in {"urban", "gf"}
    /\ pc = IF revision = "urban" THEN "setup_city" ELSE "create_database"
    /\ argv_city \in {NoFlag, Flag(<<"a", " ">>)}
    /\ typed \in {<<>>}
    /\ CITY = IF revision = "urban" THEN <<>> ELSE DefaultCity
    /\ retry_count = DefaultRetryCount
    /\ IdleReq /\ IdleCtl /\ IdleMain /\ IdleLog
    /\ \/ NoDatabase
       \/ table_exists = TRUE /\ table = <<EarlierRow>> /\ sqlite_sequence = 1

Next ==
    \/ SetupCity
    \/ CreateDatabase
    \/ SearchStart
    \/ Request
    \/ Backoff
    \/ GfSearch
    \/ MainCollect
    \/ MainSave

Spec == Init /\ [][Next]_vars

---------------------------------------------------------------------------
(* Properties *)

Range(f) == {f[i] : i \in DOMAIN f}

\* C1: in search_organizations_overpass, as soon as an endpoint call
\* returns a record list (empty or not) the search has returned exactly
\* that list, the successful call is the last call made, and the number of
\* backoff sleeps is attempt_index - 1, attempt_index being the 1-based
\* attempt of the successful call.
RetryReturnsFirstSuccess ==
    ~request_result.isNone =>
        /\ pc = "returned"
        /\ organizations = request_result.orgs
        /\ successAt = Len(calls)
        /\ Len(sleeps) = (((Len(calls) - 1) \div Len(servers)) + 1) - 1

\* C1 witness: the fifth call (second attempt) succeeds with an empty list
EmptySuccessOnSecondAttempt ==
    /\ pc = "returned"
    /\ ~request_result.isNone
    /\ organizations = <<>>
    /\ Len(calls) = 5
    /\ sleeps = <<30>>

\* C2: whatever the failures, no exception leaves make_overpass_request or
\* search_organizations_overpass; a search in which every call failed ends
\* after its last attempt and returns the empty list; and main, having
\* collected an exhausted category, stands at the next one and reaches the
\* save with all five categories collected.
ExhaustionIsNotFatal ==
    /\ pc # "crashed"
    /\ ~request_result.raised
    /\ Len(calls) <= Len(servers) * retry_count
    /\ (pc = "returned" /\ successAt = 0) =>
          /\ organizations = <<>>
          /\ revision = "urban" => Len(calls) = Len(servers) * retry_count
    /\ \A i \in 1..Len(returned) :
          ~returned[i].ok =>
             /\ returned[i].orgs = <<>>
             /\ i < Len(categories) =>
                   \/ Len(queried) > i
                   \/ pc = "search" /\ cat = i + 1
    /\ pc \in {"save", "done"} => Len(returned) = Len(categories)

\* C2 witness: the first category exhausted all its attempts, the last of
\* them on a payload decoding error, and main has started the search of
\* the second category
ExhaustedThenContinued ==
    /\ revision = "urban"
    /\ Len(returned) = 1
    /\ ~returned[1].ok
    /\ response.status = "JSONDecodeError"
    /\ queried = <<categories[1], categories[2]>>
    /\ pc = "request"
    /\ calls = <<>>

RECURSIVE Concat(_)
Concat(rs) == IF rs = <<>> THEN <<>> ELSE Head(rs).orgs \o Concat(Tail(rs))

\* C8: main queries the five categories in the fixed order, writes no row
\* before the last category has been collected, and writes the store by
\* exactly one save_to_database call, whose argument is the concatenation
\* in category order of what the searches returned.
OneBulkSaveAtTheEnd ==
    /\ queried = SubSeq(categories, 1, Len(queried))
    /\ pc \in {"save", "done"} => queried = categories /\ Len(returned) = Len(categories)
    /\ pc \notin {"done", "crashed"} =>
          /\ n_saves = 0
          /\ table \in {<<>>, <<EarlierRow>>}
          /\ pc \notin {"setup_city", "create_database"} => table = before
    /\ pc = "done" =>
          /\ n_saves = 1
          /\ saved = Concat(returned)
          /\ \A i \in 1..Len(returned) : returned[i].ok \/ returned[i].orgs = <<>>

\* C8 witness: a finished run in which one category was exhausted, others
\* gave records, and the single save added rows
MixedRunSavedOnce ==
    /\ pc = "done"
    /\ \E i, j \in 1..Len(returned) :
          /\ ~returned[i].ok
          /\ i < j
          /\ returned[j].orgs # <<>>
    /\ Len(saved) >= 2
    /\ Len(table) > Len(before)

\* C9: every attempt calls the endpoints in the order 1, 2, 3; a sleep
\* comes only after three failed calls of an attempt that is not the last
\* and never between endpoints; the k-th sleep lasts 30 * k seconds; a
\* fully failing search makes 3 * retry_count calls, and with the default
\* retry_count it makes 15 calls and sleeps 30, 60, 90, 120.
FixedOrderLinearBackoff ==
    /\ \A i \in 1..Len(calls) : calls[i] = ((i - 1) % 3) + 1
    /\ \A k \in 1..Len(sleeps) : sleeps[k] = 30 * k
    /\ 3 * Len(sleeps) <= Len(calls)
    /\ Len(calls) <= 3 * (Len(sleeps) + 1)
    /\ retry_count >= 1 => Len(sleeps) <= retry_count - 1
    /\ (pc = "returned" /\ request_result.isNone) =>
          /\ Len(calls) = 3 * retry_count
          /\ retry_count >= 1 => Len(sleeps) = retry_count - 1
          /\ retry_count = DefaultRetryCount =>
                Len(calls) = 15 /\ sleeps = <<30, 60, 90, 120>>

\* C9 witness: the default search in which all fifteen calls failed
FullyFailingDefaultRun ==
    /\ pc = "returned"
    /\ retry_count = DefaultRetryCount
    /\ request_result.isNone
    /\ Len(calls) = 15
    /\ Len(sleeps) = 4

\* the five data values of a row
Key(r) == <<r.name, r.address, r.lat, r.lon, r.type>>

\* C3: the organizations table never holds two rows with the same
\* (name, address, lat, lon, type).
NoDuplicateRows ==
    \A i, j \in 1..Len(table) : i # j => Key(table[i]) # Key(table[j])

\* C4: the count a save_to_database call logs equals the number of rows
\* the call inserted.
SavedCountIsRowsInserted ==
    (pc = "store_saved" /\ ~raised) => saved_count = Len(table) - Len(before)

\* C5: a record whose insert fails is skipped alone: no exception leaves
\* save_to_database, and every record of the list whose insert does not
\* fail has its row in the table when the call has finished.
BadRecordSkippedAlone ==
    pc = "store_saved" =>
        /\ ~raised
        /\ \A i \in 1..Len(saved) :
              ~InsertRaises(saved[i]) =>
                 \E r \in Range(table) : Key(r) = Key(Row(r.id, saved[i]))

\* C10: a row that was in the table when create_database or
\* save_to_database was called is in the table afterwards, with the same
\* id and the same five values; create_database leaves the table as it was.
ExistingRowsUntouched ==
    /\ pc \in {"store_created", "store_saved"} => Range(before) \subseteq Range(table)
    /\ pc = "store_created" => table = before

\* C10 witness: a save on a table with rows, one of its records colliding
\* with a stored row, another one inserted
SaveOverExistingRow ==
    /\ pc = "store_saved"
    /\ before # <<>>
    /\ \E i \in 1..Len(saved) :
          /\ ~InsertRaises(saved[i])
          /\ \E r \in Range(before) : Collides(r, Row(r.id, saved[i]))
    /\ Len(table) > Len(before)

\* what the claim C6 calls a feature with a name and with coordinates
HasName(e) == e.name.t = "str" /\ Strip(e.name.s) # <<>>
HasDirect(e) == e.lat.t # "absent" /\ e.lon.t # "absent"
HasCenter(e) == e.center.has /\ e.center.lat.t # "absent" /\ e.center.lon.t # "absent"

RecordFor(e, category, city) ==
    Org(Str(Strip(e.name.s)), Str(AddressOf(e, city)),
        IF HasDirect(e) THEN e.lat ELSE e.center.lat,
        IF HasDirect(e) THEN e.lon ELSE e.center.lon,
        Str(<<category>>))

RECURSIVE ExpectedRecords(_, _, _)
ExpectedRecords(es, category, city) ==
    IF es = <<>> THEN <<>>
    ELSE (IF HasName(Head(es)) /\ (HasDirect(Head(es)) \/ HasCenter(Head(es)))
          THEN <<RecordFor(Head(es), category, city)>> ELSE <<>>)
         \o ExpectedRecords(Tail(es), category, city)

\* C6: for a decoded response make_overpass_request returns, in response
\* order, one record for each feature that has a non-empty trimmed name
\* and coordinates; a feature without them is dropped alone and never
\* makes the call fail.
EveryUsableFeatureYieldsItsRecord ==
    (pc = "posted" /\ response.status = "ok") =>
        /\ ~request_result.isNone
        /\ request_result.orgs = ExpectedRecords(response.elements, categories[cat], CITY)

\* the city the claim C7 describes: the flag when given, else the typed
\* line; stripped and capitalized; the default when that is empty.  A flag
\* given with the empty text is read as argparse users read it, as no flag.
ResolvedCity ==
    LET raw  == IF argv_city.given /\ argv_city.text # <<>>
                THEN argv_city.text ELSE typed
        city == Capitalize(Strip(raw))
    IN  IF city = <<>> THEN DefaultCity ELSE city

\* C7: setup_city returns the stripped, capitalized --city value when the
\* flag is given and else the typed line, the default city whenever that
\* value is empty, and never an empty city.
CityResolvedNeverEmpty ==
    pc = "create_database" => CITY # <<>> /\ CITY = ResolvedCity

====
